---- MODULE Spec2Model ----
(***************************************************************************)
(* Model of django-magic-link: the MagicLink row, the MagicLinkUse audit   *)
(* log and the MagicLinkView GET / POST handlers, run by concurrent        *)
(* requests against one database (READ COMMITTED, row lock taken by an     *)
(* UPDATE and held until the transaction ends; GET runs in autocommit,     *)
(* POST inside transaction.atomic).                                        *)
(***************************************************************************)
EXTENDS Integers, Sequences, FiniteSets, TLC

\* ---------------------------------------------------------------- bounds
MaxTime == 1
NumWorkers == 2
MaxRequests == 3

Workers == 1..NumWorkers
Times == 0..MaxTime

\* ------------------------------------------------------------- constants
None == -1

LinkUser == "alice"
OtherUser == "bob"
AnonymousUser == "anonymous"
RequestUsers == {AnonymousUser, LinkUser, OtherUser}

StoredToken == "token"
MissingToken == "missing"
Tokens == {StoredToken, MissingToken}

DEFAULT_REDIRECT == "/"

NoError == "ok"
InactiveLink == "InactiveLink"
ExpiredLink == "ExpiredLink"
UsedLink == "UsedLink"
InvalidLink == "InvalidLink"
PermissionDenied == "PermissionDenied"

VARIABLES
    now,      \* timezone.now()
    db,       \* the committed MagicLink row
    uses,     \* the committed MagicLinkUse rows
    lock,     \* worker whose open transaction holds the row lock, or 0
    served,   \* number of requests received so far
    pc,       \* position of each worker in the handler it runs
    req,      \* the HttpRequest a worker handles: id, method, token, user
    link,     \* the MagicLink instance the handler holds in memory
    ex,       \* the exception captured by the handler's try block
    txrow,    \* row written by the worker's open transaction
    dirty,    \* TRUE when the open transaction has written the row
    txuses,   \* MagicLinkUse rows inserted by the open transaction
    resp,     \* status code of the worker's last response, 0 while running
    sess,     \* user the client's session is authenticated as
    obj,      \* unsaved MagicLink instance exercised directly
    out       \* outcome of the last direct call on obj

vars == <<now, db, uses, lock, served, pc, req, link, ex, txrow, dirty, txuses,
          resp, sess, obj, out>>

reqvars == <<served, pc, req, link, ex, txrow, dirty, txuses, resp, sess>>
objvars == <<obj, out>>

\* ------------------------------------------------------ MagicLink fields
MagicLink(active, expires) ==
    [user |-> LinkUser, redirect_to |-> DEFAULT_REDIRECT,
     is_active |-> active, expires_at |-> expires,
     accessed_at |-> None, logged_in_at |-> None]

\* Python truthiness of a value that is True, False or None
Truthy(v) == v = "True"

\* variant: the link counts as expired at the instant t = expires_at
has_expired_inclusive(l, t) ==
    IF l.expires_at # None
    THEN (IF l.expires_at <= t THEN "True" ELSE "False")
    ELSE "None"

\* has_expired: True / False, or None when expires_at is unset
has_expired(l, t) ==
    IF l.expires_at # None
    THEN (IF l.expires_at < t THEN "True" ELSE "False")
    ELSE "None"

has_been_used(l) == l.logged_in_at # None

\* variant: an unset expires_at counts as expired
is_valid_unset_expiry(l, t) ==
    l.is_active /\ has_expired(l, t) = "False" /\ ~has_been_used(l)

is_valid(l, t) ==
    l.is_active /\ ~Truthy(has_expired(l, t)) /\ ~has_been_used(l)

\* variant: expiry is tested before is_active
validate_checks_expiry_first(l, t) ==
    IF Truthy(has_expired(l, t)) THEN ExpiredLink
    ELSE IF ~l.is_active THEN InactiveLink
    ELSE IF has_been_used(l) THEN UsedLink
    ELSE NoError

\* the three explicit checks of validate(), clock read at t
validate_checks(l, t) ==
    IF ~l.is_active THEN InactiveLink
    ELSE IF Truthy(has_expired(l, t)) THEN ExpiredLink
    ELSE IF has_been_used(l) THEN UsedLink
    ELSE NoError

\* the belt-and-braces check of validate(), clock read again at t
validate_guard(l, t) ==
    IF ~is_valid(l, t) THEN InvalidLink ELSE NoError

\* validate() with its two clock reads t1 <= t2
validate(l, t1, t2) ==
    IF validate_checks(l, t1) # NoError THEN validate_checks(l, t1)
    ELSE validate_guard(l, t2)

is_authenticated(u) == u # AnonymousUser

\* variant: is_authenticated is not consulted
authorize_any_other(l, u) ==
    IF u # l.user THEN PermissionDenied ELSE NoError

authorize(l, u) ==
    IF is_authenticated(u) /\ u # l.user THEN PermissionDenied ELSE NoError

\* str(error) if error else ""
ErrorText(e) ==
    CASE e = NoError -> ""
      [] e = InactiveLink -> "Link is inactive"
      [] e = ExpiredLink -> "Link has expired"
      [] e = UsedLink -> "Link has already been used"
      [] e = InvalidLink -> "Link is invalid"
      [] e = PermissionDenied -> "User is already logged in as another user."

\* variant: the timestamp argument is ignored
AuditTimestamp_now(timestamp, t) == t

\* timestamp or timezone.now()
AuditTimestamp(timestamp, t) == IF timestamp # None THEN timestamp ELSE t

MagicLinkUse(id, m, ts, e) ==
    [request |-> id, http_method |-> m, timestamp |-> ts, error |-> ErrorText(e)]

\* variant: the lookup yields the link for any token
Found_any(token) == TRUE

\* get_object_or_404(MagicLink, token=token)
Found(token) == token = StoredToken

\* variant: post() is not wrapped in transaction.atomic
InTransaction_autocommit(w) == FALSE

\* post() runs inside transaction.atomic, get() in autocommit
InTransaction(w) == req[w].method = "POST"

\* an UPDATE of the row waits while another transaction holds its lock
CanWrite(w) == lock \in {0, w}

NoRequest == [id |-> 0, method |-> "", token |-> "", user |-> ""]

\* what a worker holds when no handler is running on it
NoLink == MagicLink(FALSE, None)

NoCall == [op |-> "none", user |-> "", t1 |-> 0, t2 |-> 0,
           error |-> NoError, value |-> FALSE]

\* no request has arrived yet
Idle ==
    /\ uses = {}
    /\ lock = 0
    /\ served = 0
    /\ pc = [w \in Workers |-> "idle"]
    /\ req = [w \in Workers |-> NoRequest]
    /\ link = [w \in Workers |-> NoLink]
    /\ ex = [w \in Workers |-> NoError]
    /\ txrow = [w \in Workers |-> NoLink]
    /\ dirty = [w \in Workers |-> FALSE]
    /\ txuses = [w \in Workers |-> {}]
    /\ resp = [w \in Workers |-> 0]
    /\ sess = [w \in Workers |-> AnonymousUser]

\* a link has been issued, active or not, with some expiry
Init ==
    /\ now = 0
    /\ \E a \in BOOLEAN, e \in Times : db = MagicLink(a, e)
    /\ Idle
    /\ obj = NoLink
    /\ out = NoCall

\* the clock advances
Tick ==
    /\ now < MaxTime
    /\ now' = now + 1
    /\ UNCHANGED <<db, uses, lock, reqvars, objvars>>

\* A request arrives at a free worker and the handler runs
\* get_object_or_404; POST has entered transaction.atomic.  A missing token
\* gives the 404 response.
Lookup(w) ==
    /\ pc[w] = "idle"
    /\ served < MaxRequests
    /\ served' = served + 1
    /\ \E m \in {"GET", "POST"}, tok \in Tokens, u \in RequestUsers :
         /\ req' = [req EXCEPT ![w] =
                      [id |-> served + 1, method |-> m, token |-> tok, user |-> u]]
         /\ sess' = [sess EXCEPT ![w] = u]
         /\ IF Found(tok)
            THEN /\ link' = [link EXCEPT ![w] = db]
                 /\ pc' = [pc EXCEPT ![w] = "validate"]
                 /\ resp' = resp
            ELSE /\ link' = link
                 /\ pc' = [pc EXCEPT ![w] = "done"]
                 /\ resp' = [resp EXCEPT ![w] = 404]
    /\ UNCHANGED <<now, db, uses, lock, ex, txrow, dirty, txuses, objvars>>

\* variant: a POST goes on to login() whatever the try block captured
AfterTry_always_login(w, e) ==
    IF req[w].method = "POST" THEN "login" ELSE "audit"

\* where the handler goes once the try block has finished with error e
AfterTry(w, e) ==
    IF e = NoError /\ req[w].method = "POST" THEN "login" ELSE "audit"

\* variant: the handler calls authorize() before validate()
Validate_authorize_first(w) ==
    /\ pc[w] = "validate"
    /\ LET a == authorize(link[w], req[w].user)
           e == IF a # NoError THEN a ELSE validate_checks(link[w], now) IN
         IF e # NoError
         THEN /\ ex' = [ex EXCEPT ![w] = e]
              /\ pc' = [pc EXCEPT ![w] = AfterTry(w, e)]
         ELSE /\ ex' = ex
              /\ pc' = [pc EXCEPT ![w] = "guard"]
    /\ UNCHANGED <<now, db, uses, lock, served, req, link, txrow, dirty, txuses,
                   resp, sess, objvars>>

\* link.validate(), lines 106-111: the three explicit checks
Validate(w) ==
    /\ pc[w] = "validate"
    /\ LET e == validate_checks(link[w], now) IN
         IF e # NoError
         THEN /\ ex' = [ex EXCEPT ![w] = e]
              /\ pc' = [pc EXCEPT ![w] = AfterTry(w, e)]
         ELSE /\ ex' = ex
              /\ pc' = [pc EXCEPT ![w] = "guard"]
    /\ UNCHANGED <<now, db, uses, lock, served, req, link, txrow, dirty, txuses,
                   resp, sess, objvars>>

\* link.validate(), line 114, then link.authorize(request.user)
Authorize(w) ==
    /\ pc[w] = "guard"
    /\ LET g == validate_guard(link[w], now)
           e == IF g # NoError THEN g ELSE authorize(link[w], req[w].user)
       IN /\ ex' = [ex EXCEPT ![w] = e]
          /\ pc' = [pc EXCEPT ![w] = AfterTry(w, e)]
    /\ UNCHANGED <<now, db, uses, lock, served, req, link, txrow, dirty, txuses,
                   resp, sess, objvars>>

\* self.save(): UPDATE of every column from the instance
Save(w, l) ==
    /\ CanWrite(w)
    /\ IF InTransaction(w)
       THEN /\ txrow' = [txrow EXCEPT ![w] = l]
            /\ dirty' = [dirty EXCEPT ![w] = TRUE]
            /\ lock' = w
            /\ db' = db
       ELSE /\ db' = l
            /\ UNCHANGED <<txrow, dirty, lock>>

\* link.login(request): django login(), then logged_in_at = now and save()
Login(w) ==
    /\ pc[w] = "login"
    /\ LET l == [link[w] EXCEPT !.logged_in_at = now] IN
         /\ link' = [link EXCEPT ![w] = l]
         /\ Save(w, l)
    /\ sess' = [sess EXCEPT ![w] = link[w].user]
    /\ pc' = [pc EXCEPT ![w] = "disable"]
    /\ UNCHANGED <<now, uses, served, req, ex, txuses, resp, objvars>>

\* variant: disable() saves the link without clearing is_active
Disable_keeps_active(w) ==
    /\ pc[w] = "disable"
    /\ link' = link
    /\ Save(w, link[w])
    /\ pc' = [pc EXCEPT ![w] = "audit"]
    /\ UNCHANGED <<now, uses, served, req, ex, txuses, resp, sess, objvars>>

\* link.disable(): is_active = False and save()
Disable(w) ==
    /\ pc[w] = "disable"
    /\ LET l == [link[w] EXCEPT !.is_active = FALSE] IN
         /\ link' = [link EXCEPT ![w] = l]
         /\ Save(w, l)
    /\ pc' = [pc EXCEPT ![w] = "audit"]
    /\ UNCHANGED <<now, uses, served, req, ex, txuses, resp, sess, objvars>>

\* variant: the handler never passes a timestamp to audit()
TimestampArg_omitted(w) == None

\* the timestamp argument the handler passes to audit()
TimestampArg(w) ==
    IF ex[w] = NoError /\ req[w].method = "POST"
    THEN link[w].logged_in_at ELSE None

\* variant: audit() creates an entry only when an error was captured
Audit_errors_only(w) ==
    /\ pc[w] = "audit"
    /\ LET log == MagicLinkUse(req[w].id, req[w].method,
                               AuditTimestamp(TimestampArg(w), now), ex[w])
           new == IF ex[w] # NoError THEN {log} ELSE {}
       IN /\ IF InTransaction(w)
             THEN /\ txuses' = [txuses EXCEPT ![w] = @ \cup new]
                  /\ uses' = uses
             ELSE /\ uses' = uses \cup new
                  /\ txuses' = txuses
          /\ IF link[w].accessed_at = None
             THEN /\ link' = [link EXCEPT ![w].accessed_at = log.timestamp]
                  /\ pc' = [pc EXCEPT ![w] = "audit_save"]
             ELSE /\ link' = link
                  /\ pc' = [pc EXCEPT ![w] = "respond"]
    /\ UNCHANGED <<now, db, lock, served, req, ex, txrow, dirty, resp, sess,
                   objvars>>

\* link.audit(), lines 153-163: MagicLinkUse.objects.create, then
\* accessed_at is set on the instance when it was unset
Audit(w) ==
    /\ pc[w] = "audit"
    /\ LET log == MagicLinkUse(req[w].id, req[w].method,
                               AuditTimestamp(TimestampArg(w), now), ex[w])
       IN /\ IF InTransaction(w)
             THEN /\ txuses' = [txuses EXCEPT ![w] = @ \cup {log}]
                  /\ uses' = uses
             ELSE /\ uses' = uses \cup {log}
                  /\ txuses' = txuses
          /\ IF link[w].accessed_at = None
             THEN /\ link' = [link EXCEPT ![w].accessed_at = log.timestamp]
                  /\ pc' = [pc EXCEPT ![w] = "audit_save"]
             ELSE /\ link' = link
                  /\ pc' = [pc EXCEPT ![w] = "respond"]
    /\ UNCHANGED <<now, db, lock, served, req, ex, txrow, dirty, resp, sess,
                   objvars>>

\* link.audit(), line 164: self.save()
AuditSave(w) ==
    /\ pc[w] = "audit_save"
    /\ Save(w, link[w])
    /\ pc' = [pc EXCEPT ![w] = "respond"]
    /\ UNCHANGED <<now, uses, served, req, link, ex, txuses, resp, sess,
                   objvars>>

Status(w) ==
    IF ex[w] # NoError THEN 403
    ELSE IF req[w].method = "POST" THEN 302 ELSE 200

\* the target of HttpResponseRedirect(link.redirect_to)
Location(w) == link[w].redirect_to

\* the handler returns; transaction.atomic commits what POST wrote
Respond(w) ==
    /\ pc[w] = "respond"
    /\ resp' = [resp EXCEPT ![w] = Status(w)]
    /\ pc' = [pc EXCEPT ![w] = "done"]
    /\ db' = IF dirty[w] THEN txrow[w] ELSE db
    /\ uses' = uses \cup txuses[w]
    /\ dirty' = [dirty EXCEPT ![w] = FALSE]
    /\ txuses' = [txuses EXCEPT ![w] = {}]
    /\ lock' = IF lock = w THEN 0 ELSE lock
    /\ UNCHANGED <<now, served, req, link, ex, txrow, sess, objvars>>

\* login(), disable(), audit() or the commit raises inside
\* transaction.atomic: the transaction rolls back, the response is a 500
\* and the session is not saved
Fail(w) ==
    /\ pc[w] \in {"login", "disable", "audit", "audit_save", "respond"}
    /\ req[w].method = "POST"
    /\ ex[w] = NoError
    /\ resp' = [resp EXCEPT ![w] = 500]
    /\ pc' = [pc EXCEPT ![w] = "done"]
    /\ sess' = [sess EXCEPT ![w] = req[w].user]
    /\ dirty' = [dirty EXCEPT ![w] = FALSE]
    /\ txuses' = [txuses EXCEPT ![w] = {}]
    /\ lock' = IF lock = w THEN 0 ELSE lock
    /\ UNCHANGED <<now, db, uses, served, req, link, ex, txrow, objvars>>

\* the response has been sent: the worker is free for the next request
Finish(w) ==
    /\ pc[w] = "done"
    /\ pc' = [pc EXCEPT ![w] = "idle"]
    /\ req' = [req EXCEPT ![w] = NoRequest]
    /\ link' = [link EXCEPT ![w] = NoLink]
    /\ ex' = [ex EXCEPT ![w] = NoError]
    /\ txrow' = [txrow EXCEPT ![w] = NoLink]
    /\ resp' = [resp EXCEPT ![w] = 0]
    /\ sess' = [sess EXCEPT ![w] = AnonymousUser]
    /\ UNCHANGED <<now, db, uses, lock, served, dirty, txuses, objvars>>

Next ==
    \/ Tick
    \/ \E w \in Workers : Lookup(w)
    \/ \E w \in Workers : Validate(w)
    \/ \E w \in Workers : Authorize(w)
    \/ \E w \in Workers : Login(w)
    \/ \E w \in Workers : Disable(w)
    \/ \E w \in Workers : Audit(w)
    \/ \E w \in Workers : AuditSave(w)
    \/ \E w \in Workers : Respond(w)
    \/ \E w \in Workers : Fail(w)
    \/ \E w \in Workers : Finish(w)

Spec == Init /\ [][Next]_vars

\* ------------------------------------------- direct calls on an instance
\* MagicLink(...) built in memory with any field values, as the unit tests do
Instances ==
    [user : {LinkUser}, redirect_to : {DEFAULT_REDIRECT},
     is_active : BOOLEAN, expires_at : Times \cup {None},
     accessed_at : {None}, logged_in_at : Times \cup {None}]

InitModel ==
    /\ now \in Times
    /\ db = NoLink
    /\ Idle
    /\ obj \in Instances
    /\ out = NoCall

\* obj.is_valid
CallIsValid ==
    /\ out' = [op |-> "is_valid", user |-> "", t1 |-> now, t2 |-> now,
               error |-> NoError, value |-> is_valid(obj, now)]
    /\ UNCHANGED <<now, db, uses, lock, reqvars, obj>>

\* obj.validate(); the clock may advance between its two reads
CallValidate ==
    /\ \E t2 \in now..MaxTime :
         /\ out' = [op |-> "validate", user |-> "", t1 |-> now, t2 |-> t2,
                    error |-> validate(obj, now, t2), value |-> FALSE]
         /\ now' = t2
    /\ UNCHANGED <<db, uses, lock, reqvars, obj>>

\* obj.authorize(user)
CallAuthorize ==
    /\ \E u \in RequestUsers :
         out' = [op |-> "authorize", user |-> u, t1 |-> now, t2 |-> now,
                 error |-> authorize(obj, u), value |-> FALSE]
    /\ UNCHANGED <<now, db, uses, lock, reqvars, obj>>

\* obj.disable() on the unsaved instance: is_active = False
CallDisable ==
    /\ obj.is_active
    /\ obj' = [obj EXCEPT !.is_active = FALSE]
    /\ out' = [op |-> "disable", user |-> "", t1 |-> now, t2 |-> now,
               error |-> NoError, value |-> FALSE]
    /\ UNCHANGED <<now, db, uses, lock, reqvars>>

NextModel ==
    \/ CallIsValid
    \/ CallValidate
    \/ CallAuthorize
    \/ CallDisable

SpecModel == InitModel /\ [][NextModel]_vars

\* ---------------------------------------------------------------- claims

\* expires_at is set and lies before t
Expired(l, t) == l.expires_at # None /\ l.expires_at < t

\* C4: is_valid is true exactly when is_active is true, has_expired is not
\* true and logged_in_at is null, for every link and every current time.
C4_IsValidIff ==
    out.op = "is_valid" =>
        (out.value <=> (obj.is_active /\ ~Expired(obj, out.t1)
                                      /\ obj.logged_in_at = None))

\* is_valid was read on an active, unused link whose expires_at is unset
C4_Witness ==
    /\ out.op = "is_valid"
    /\ out.value
    /\ obj.expires_at = None

\* C5: validate() reports the first violated condition in the order
\* inactive, expired, used, and succeeds only when none of the three holds.
C5_ValidatePriority ==
    out.op = "validate" =>
        /\ ~obj.is_active => out.error = InactiveLink
        /\ (obj.is_active /\ Expired(obj, out.t1)) => out.error = ExpiredLink
        /\ (obj.is_active /\ ~Expired(obj, out.t1) /\ obj.logged_in_at # None)
              => out.error = UsedLink
        /\ out.error = NoError =>
              (obj.is_active /\ ~Expired(obj, out.t1) /\ obj.logged_in_at = None)

\* validate() was called on a link that is inactive, expired and used at once
C5_Witness ==
    /\ out.op = "validate"
    /\ ~obj.is_active
    /\ Expired(obj, out.t1)
    /\ obj.logged_in_at # None
    /\ out.error = InactiveLink

\* C6: authorize(user) fails with PermissionDenied exactly when the
\* requester is authenticated and is not the link's user, and the call
\* leaves the link as it was.
C6_AuthorizeIff ==
    /\ [](out.op = "authorize" =>
            (out.error = PermissionDenied
               <=> (out.user # AnonymousUser /\ out.user # obj.user)))
    /\ [][out'.op = "authorize" /\ out' # out => obj' = obj]_vars

\* an anonymous requester was authorized
C6_Witness ==
    /\ out.op = "authorize"
    /\ out.user = AnonymousUser
    /\ out.error = NoError

\* ------------------------------------------------- claims on the handlers

\* worker w takes a step of its handler
Steps(w) == pc'[w] # pc[w]

\* the committed audit entries written for the request worker w handles
EntriesOf(w) == {e \in uses : e.request = req[w].id}

\* worker w has answered a POST for the stored link from a requester the
\* link authorizes
Consumer(w) ==
    /\ pc[w] = "done"
    /\ req[w].method = "POST"
    /\ req[w].token = StoredToken
    /\ req[w].user \in {AnonymousUser, LinkUser}

\* a successful POST has been committed for the link
Consumed == \E e \in uses : e.http_method = "POST" /\ e.error = ""

\* C1: of two POSTs racing on the same valid link (one that has not expired
\* by the time both are answered) one completes login() with a 302 and the
\* other is rejected with a 403 carrying InactiveLink or UsedLink, so login
\* is never performed twice for one link.
C1_OneLoginPerLink ==
    \A w1, w2 \in Workers :
        (/\ w1 # w2
         /\ ~Expired(db, now)
         /\ Consumer(w1) /\ Consumer(w2)
         /\ resp[w1] = 302
         /\ resp[w2] \in {302, 403})
        => (resp[w2] = 403 /\ ex[w2] \in {InactiveLink, UsedLink})

\* C2: once the stored is_active is false, it is false in every later state.
C2_DisablePermanent == [][~db.is_active => ~db'.is_active]_vars

\* C3: in every committed state logged_in_at non-null implies is_active
\* false, and once a POST has consumed the link is_valid stays false.
C3_UsedNeverValid ==
    /\ db.logged_in_at # None => ~db.is_active
    /\ Consumed => ~is_valid(db, now)

\* C7: the consume path commits all of login, disable and the audit entry
\* or nothing: a POST handler changes the stored link and the audit log only
\* by the commit that ends it with a 302 or 403, a POST that fails leaves
\* both as they are and no entry of its own, and no committed state has
\* logged_in_at set while is_active is still true.
C7_ConsumeAtomic ==
    /\ [][\A w \in Workers :
            (Steps(w) /\ req'[w].method = "POST" /\ resp'[w] \notin {302, 403})
            => (db' = db /\ uses' = uses)]_vars
    /\ [](\A w \in Workers :
            (pc[w] = "done" /\ resp[w] = 500) => EntriesOf(w) = {})
    /\ [](db.logged_in_at # None => ~db.is_active)

\* a POST failed after login() and disable() had run, and the stored link
\* is still active and unused
C7_Witness ==
    \E w \in Workers :
        /\ pc[w] = "done"
        /\ resp[w] = 500
        /\ link[w].logged_in_at # None
        /\ ~link[w].is_active
        /\ db.is_active
        /\ db.logged_in_at = None

\* C8: a GET or POST on an existing link that fails validate() or
\* authorize() writes exactly one audit entry carrying the non-empty text of
\* the captured error and returns 403; it performs no login and leaves
\* is_active and logged_in_at unchanged.
C8_RejectedAudited ==
    /\ [](\A w \in Workers :
            (pc[w] = "done" /\ ex[w] # NoError) =>
                /\ resp[w] = 403
                /\ Cardinality(EntriesOf(w)) = 1
                /\ \A e \in EntriesOf(w) :
                      e.error = ErrorText(ex[w]) /\ e.error # ""
                /\ sess[w] = req[w].user)
    /\ [][\A w \in Workers :
            (Steps(w) /\ ex'[w] # NoError) =>
                /\ db'.is_active = db.is_active
                /\ db'.logged_in_at = db.logged_in_at]_vars

\* C9: a successful POST writes exactly one audit entry, with empty error
\* and with the timestamp that the same request stored in logged_in_at.
C9_SuccessAudit ==
    /\ [](\A w \in Workers :
            (pc[w] = "done" /\ resp[w] = 302) =>
                /\ Cardinality(EntriesOf(w)) = 1
                /\ link[w].logged_in_at # None
                /\ \A e \in EntriesOf(w) :
                      e.error = "" /\ e.timestamp = link[w].logged_in_at)
    /\ [][\A w \in Workers :
            (Steps(w) /\ resp'[w] = 302) =>
                \A e \in uses' \ uses : e.timestamp = db'.logged_in_at]_vars

\* a POST succeeded and the clock has moved on since its login()
C9_Witness ==
    \E w \in Workers :
        /\ pc[w] = "done"
        /\ resp[w] = 302
        /\ link[w].logged_in_at < now

\* C10: a GET or POST whose token resolves to no link returns 404, writes
\* no audit entry and changes neither the link nor the session.
C10_MissingToken ==
    /\ [](\A w \in Workers :
            (pc[w] # "idle" /\ req[w].token = MissingToken) =>
                /\ pc[w] = "done"
                /\ resp[w] = 404
                /\ EntriesOf(w) = {}
                /\ txuses[w] = {}
                /\ sess[w] = req[w].user)
    /\ [][\A w \in Workers :
            (Steps(w) /\ req'[w].token = MissingToken) =>
                (db' = db /\ uses' = uses /\ lock' = lock)]_vars

\* a POST with a token that matches no link was answered
C10_Witness ==
    \E w \in Workers :
        /\ pc[w] = "done"
        /\ req[w].method = "POST"
        /\ req[w].token = MissingToken
        /\ resp[w] = 404

\* the part of C8 that concerns the response and the audit entry alone
RejectedHasOneEntry ==
    \A w \in Workers :
        (pc[w] = "done" /\ ex[w] # NoError) =>
            /\ resp[w] = 403
            /\ Cardinality(EntriesOf(w)) = 1
            /\ \A e \in EntriesOf(w) : e.error = ErrorText(ex[w]) /\ e.error # ""

\* -------------------------------------------- claims on the timestamps

\* C11: accessed_at is set by the first audit() on the link, to that
\* entry's timestamp, whether the attempt succeeded or was rejected, and
\* every later audit() leaves the stored accessed_at as it is.
C11_AccessedOnce ==
    /\ [](\A w \in Workers :
            (/\ pc[w] = "done"
             /\ resp[w] \in {200, 302, 403}
             /\ uses = EntriesOf(w))
            => \A e \in uses : db.accessed_at = e.timestamp)
    /\ [][db.accessed_at # None => db'.accessed_at = db.accessed_at]_vars

\* C12: logged_in_at is set at most once: once it is stored it keeps its
\* first value, and a POST that loads the link after a POST has consumed it
\* holds an instance that validate() rejects with InactiveLink or UsedLink.
C12_LoggedInOnce ==
    /\ [][db.logged_in_at # None => db'.logged_in_at = db.logged_in_at]_vars
    /\ [][\A w \in Workers :
            (/\ pc[w] = "idle" /\ Steps(w)
             /\ Consumed
             /\ req'[w].method = "POST"
             /\ req'[w].token = StoredToken)
            => validate_checks(link'[w], now) \in {InactiveLink, UsedLink}]_vars

\* C15: a GET that passes validate() and authorize() returns 200 with
\* exactly one audit entry with empty error, has accessed_at set, and
\* leaves the stored is_active, logged_in_at and expires_at and the session
\* as they were.
C15_GetReadOnly ==
    /\ [](\A w \in Workers :
            (/\ pc[w] = "done"
             /\ req[w].method = "GET"
             /\ req[w].token = StoredToken
             /\ ex[w] = NoError)
            => /\ resp[w] = 200
               /\ Cardinality(EntriesOf(w)) = 1
               /\ \A e \in EntriesOf(w) : e.error = ""
               /\ link[w].accessed_at # None
               /\ sess[w] = req[w].user)
    /\ [][\A w \in Workers :
            (Steps(w) /\ req'[w].method = "GET" /\ ex'[w] = NoError)
            => /\ db'.is_active = db.is_active
               /\ db'.logged_in_at = db.logged_in_at
               /\ db'.expires_at = db.expires_at]_vars

\* C17: a handler that loads the link after a POST has consumed it holds an
\* instance on which validate() fails with InactiveLink, not UsedLink, at
\* every later time.
C17_ConsumedIsInactive ==
    [][\A w \in Workers :
         (/\ pc[w] = "idle" /\ Steps(w)
          /\ Consumed
          /\ req'[w].token = StoredToken)
         => \A t \in Times : validate_checks(link'[w], t) = InactiveLink]_vars

\* ------------------------------------------- claims on the control flow

\* the link l cannot be used at time t
Invalid(l, t) == ~l.is_active \/ Expired(l, t) \/ l.logged_in_at # None

\* worker w handles a request for the stored link
OnLink(w) == pc[w] # "idle" /\ req[w].token = StoredToken

\* C14: a POST by an anonymous requester or by the link's user is rejected
\* only when the link it loaded is invalid; when it is not rejected and the
\* handler completes, it returns 302 to the link's redirect_to, its session
\* is authenticated as the link's user, and the row it commits has
\* is_active false and logged_in_at set.
C14_ConsumeSucceeds ==
    /\ [](\A w \in Workers :
            (/\ OnLink(w)
             /\ req[w].method = "POST"
             /\ req[w].user \in {AnonymousUser, LinkUser})
            => /\ ex[w] # NoError => Invalid(link[w], now)
               /\ (pc[w] = "done" /\ ex[w] = NoError /\ resp[w] # 500)
                  => /\ resp[w] = 302
                     /\ Location(w) = db.redirect_to
                     /\ sess[w] = db.user
                     /\ txrow[w] = link[w]
                     /\ ~link[w].is_active
                     /\ link[w].logged_in_at # None)
    /\ [][\A w \in Workers :
            (Steps(w) /\ resp'[w] = 302)
            => /\ db' = link[w]
               /\ ~db'.is_active
               /\ db'.logged_in_at # None]_vars

\* an anonymous POST has consumed the link and holds the session of the
\* link's user
C14_Witness ==
    \E w \in Workers :
        /\ pc[w] = "done"
        /\ req[w].method = "POST"
        /\ req[w].user = AnonymousUser
        /\ resp[w] = 302
        /\ sess[w] = LinkUser
        /\ ~db.is_active
        /\ db.logged_in_at # None

\* C16: login() runs only in a POST whose validate() and authorize() both
\* succeeded, on an instance that is active and unused; a GET or a rejected
\* request never changes its session and never stores a logged_in_at.
C16_LoginOnlyFromValid ==
    /\ [](\A w \in Workers :
            OnLink(w) =>
              /\ (req[w].method = "GET" \/ ex[w] # NoError)
                 => sess[w] = req[w].user
              /\ sess[w] # req[w].user
                 => /\ req[w].method = "POST"
                    /\ ex[w] = NoError
                    /\ link[w].logged_in_at # None)
    /\ [][\A w \in Workers :
            (Steps(w) /\ pc[w] = "login" /\ pc'[w] = "disable")
            => /\ req[w].method = "POST"
               /\ ex[w] = NoError
               /\ req[w].user \in {AnonymousUser, link[w].user}
               /\ link[w].is_active
               /\ link[w].logged_in_at = None]_vars
    /\ [][\A w \in Workers :
            (Steps(w) /\ (req'[w].method = "GET" \/ ex'[w] # NoError))
            => (db'.logged_in_at # None
                  => db'.logged_in_at = db.logged_in_at)]_vars

\* a rejected POST by another user was answered while the link was still
\* usable, and its session is still that user's
C16_Witness ==
    \E w \in Workers :
        /\ pc[w] = "done"
        /\ req[w].method = "POST"
        /\ req[w].user = OtherUser
        /\ ex[w] = PermissionDenied
        /\ sess[w] = OtherUser
        /\ db.is_active
        /\ db.logged_in_at = None

\* C19: validate() runs before authorize(): when the link is invalid at
\* the time validate() checks it, the handler captures InactiveLink,
\* ExpiredLink or UsedLink whoever the requester is; PermissionDenied is
\* captured only when the link passed validate(); and the audit entry and
\* the 403 carry the captured error.
C19_ValidateBeforeAuthorize ==
    /\ [][\A w \in Workers :
            (Steps(w) /\ pc[w] = "validate" /\ Invalid(link[w], now))
            => ex'[w] \in {InactiveLink, ExpiredLink, UsedLink}]_vars
    /\ [][\A w \in Workers :
            (Steps(w) /\ ex[w] # PermissionDenied /\ ex'[w] = PermissionDenied)
            => /\ pc[w] = "guard"
               /\ ~Invalid(link[w], now)
               /\ req[w].user = OtherUser]_vars
    /\ [](\A w \in Workers :
            (pc[w] = "done" /\ ex[w] # NoError)
            => /\ resp[w] = 403
               /\ \A e \in EntriesOf(w) : e.error = ErrorText(ex[w])
               /\ ex[w] = PermissionDenied
                  => (link[w].is_active /\ link[w].logged_in_at = None))

\* another user's request for an inactive link was rejected with the link
\* error
C19_Witness ==
    \E w \in Workers :
        /\ pc[w] = "done"
        /\ req[w].user = OtherUser
        /\ ~link[w].is_active
        /\ ex[w] = InactiveLink
        /\ resp[w] = 403
        /\ \E e \in EntriesOf(w) : e.error = "Link is inactive"

\* C20: the audit log only grows: no step removes or changes a committed
\* entry, every request has at most one entry, and a GET or POST on the
\* stored link that is answered with 200, 302 or 403 has exactly one.
C20_AppendOnly ==
    /\ [][uses \subseteq uses']_vars
    /\ [](\A w \in Workers : Cardinality(EntriesOf(w)) <= 1)
    /\ [](\A w \in Workers :
            (pc[w] = "done" /\ req[w].token = StoredToken /\ resp[w] # 500)
            => Cardinality(EntriesOf(w)) = 1)
    /\ [](\A e \in uses : e.request \in 1..served)

\* three requests have been answered and the log holds an entry for each
C20_Witness ==
    /\ Cardinality(uses) = 3
    /\ \E e \in uses : e.http_method = "GET" /\ e.error = ""
    /\ \E e \in uses : e.error # ""

\* ------------------------------------------- claims on concurrent writes

\* worker w handles a GET or a request that was rejected
AuditsOnly(w) == req[w].method = "GET" \/ ex[w] # NoError

\* C21: the write of accessed_at by the audit() of a GET or of a rejected
\* POST leaves the stored is_active and logged_in_at as another request
\* committed them.
C21_NoLostUpdate ==
    [][\A w \in Workers :
         (/\ Steps(w)
          /\ pc[w] \in {"audit_save", "respond"}
          /\ AuditsOnly(w))
         => /\ db'.is_active = db.is_active
            /\ db'.logged_in_at = db.logged_in_at]_vars

\* C22: a stored logged_in_at never lies after the link's expires_at.
C22_LoginBeforeExpiry ==
    (db.logged_in_at # None /\ db.expires_at # None)
        => db.logged_in_at <= db.expires_at

\* the smallest timestamp among the committed audit entries
FirstUse == CHOOSE t \in {e.timestamp : e \in uses} :
                \A e \in uses : t <= e.timestamp

\* no GET stands between the two statements of audit(): its entry is
\* created and its save() has not run yet
Settled == \A w \in Workers : pc[w] # "audit_save" \/ InTransaction(w)

\* C23: in every committed state in which no audit() is half done,
\* accessed_at is null exactly when the link has no audit entries and
\* otherwise equals the smallest timestamp among them.
C23_AccessedIsFirstUse ==
    Settled =>
        /\ db.accessed_at = None <=> uses = {}
        /\ uses # {} => db.accessed_at = FirstUse

\* C24: in every committed state a non-null logged_in_at comes with a
\* non-null accessed_at that is not later, and the two are equal when the
\* consuming POST's entry is the only one the link has.
C24_AccessedBeforeLogin ==
    /\ db.logged_in_at # None
          => (db.accessed_at # None /\ db.accessed_at <= db.logged_in_at)
    /\ \A w \in Workers :
          (pc[w] = "done" /\ resp[w] = 302 /\ uses = EntriesOf(w))
              => (db.logged_in_at # None
                    /\ db.accessed_at = db.logged_in_at)

\* the link was first accessed by a GET and consumed by a POST later
C24_Witness ==
    /\ db.logged_in_at # None
    /\ db.accessed_at # None
    /\ db.accessed_at < db.logged_in_at
    /\ \E e \in uses : e.http_method = "GET" /\ e.timestamp = db.accessed_at
    /\ \E e \in uses : e.http_method = "POST" /\ e.error = ""
                          /\ e.timestamp = db.logged_in_at

\* ------------------------------------------------------- expiry boundary

\* obj is active and unused and has an expiry
Usable(l) == l.is_active /\ l.logged_in_at = None /\ l.expires_at # None

\* C13 as stated: an active, unused link is invalid at every time
\* now >= expires_at, the instant now = expires_at included: validate()
\* fails with ExpiredLink and is_valid is false.
C13_InvalidFromExpiry ==
    (Usable(obj) /\ out.t1 >= obj.expires_at) =>
        /\ out.op = "validate" => out.error = ExpiredLink
        /\ out.op = "is_valid" => ~out.value

\* C13 amended: an active, unused link is invalid at every time
\* now > expires_at (validate() fails with ExpiredLink, is_valid is false);
\* at the instant now = expires_at is_valid is still true and validate()
\* does not fail with ExpiredLink.
C13_InvalidAfterExpiry ==
    /\ (Usable(obj) /\ out.t1 > obj.expires_at) =>
          /\ out.op = "validate" => out.error = ExpiredLink
          /\ out.op = "is_valid" => ~out.value
    /\ (Usable(obj) /\ out.t1 = obj.expires_at) =>
          /\ out.op = "validate" => out.error # ExpiredLink
          /\ out.op = "is_valid" => out.value

\* validate() was called on an active, unused link after its expiry
C13_Witness ==
    /\ out.op = "validate"
    /\ Usable(obj)
    /\ out.t1 > obj.expires_at
    /\ out.error = ExpiredLink

\* C18: validate() succeeds exactly when is_valid is true and never fails
\* with the bare InvalidLink, whatever is_active, expires_at, logged_in_at
\* and the current time are.
C18_NoInvalidLink ==
    out.op = "validate" =>
        /\ out.error # InvalidLink
        /\ out.error = NoError <=> is_valid(obj, out.t1)

====
